---- MODULE Spec2Model ----
(***************************************************************************)
(* Model of src/app.py: the transit route retry, the frequency-weighted    *)
(* merge of two destinations, the write-back into the listing table, the   *)
(* per-row monthly cost and the sorted comparison table.                   *)
(*                                                                         *)
(* Python floats are IEEE-754 binary64.  The arithmetic of the program is  *)
(* modelled bit-exactly for the non-negative normal range: a float is a    *)
(* record [m, e] that stands for m * 2^e, where m is a 53-bit natural      *)
(* number kept as a little-endian sequence of base-2^15 digits (TLC's      *)
(* integers are 32 bits wide), and every operation rounds to nearest, ties *)
(* to even.                                                                *)
(***************************************************************************)
EXTENDS Integers, Sequences, FiniteSets

(***************************************************************************)
(* Natural numbers of arbitrary size: little-endian digit sequences.       *)
(***************************************************************************)
Base == 32768
DigitBits == 15
MantBits == 53

RECURSIVE Pow2(_)
Pow2(n) == IF n = 0 THEN 1 ELSE 2 * Pow2(n - 1)

RECURSIVE BNorm(_)
BNorm(x) ==
    IF x = <<>> THEN <<>>
    ELSE IF x[Len(x)] = 0 THEN BNorm(SubSeq(x, 1, Len(x) - 1))
    ELSE x

RECURSIVE BFromNat(_)
BFromNat(n) == IF n = 0 THEN <<>> ELSE <<n % Base>> \o BFromNat(n \div Base)

RECURSIVE BToNat(_)
BToNat(x) == IF x = <<>> THEN 0 ELSE x[1] + Base * BToNat(Tail(x))

RECURSIVE BAddC(_, _, _)
BAddC(x, y, c) ==
    IF x = <<>> /\ y = <<>> THEN (IF c = 0 THEN <<>> ELSE <<c>>)
    ELSE LET a == IF x = <<>> THEN 0 ELSE x[1]
             b == IF y = <<>> THEN 0 ELSE y[1]
             s == a + b + c
         IN  <<s % Base>> \o BAddC(IF x = <<>> THEN <<>> ELSE Tail(x),
                                   IF y = <<>> THEN <<>> ELSE Tail(y),
                                   s \div Base)

BAdd(x, y) == BAddC(x, y, 0)

RECURSIVE BSubC(_, _, _)
BSubC(x, y, c) ==
    IF x = <<>> THEN <<>>
    ELSE LET b == IF y = <<>> THEN 0 ELSE y[1]
             s == x[1] - b - c
         IN  <<IF s < 0 THEN s + Base ELSE s>>
               \o BSubC(Tail(x), IF y = <<>> THEN <<>> ELSE Tail(y),
                        IF s < 0 THEN 1 ELSE 0)

\* x - y for x >= y
BSub(x, y) == BNorm(BSubC(x, y, 0))

RECURSIVE BCmpFrom(_, _, _)
BCmpFrom(x, y, i) ==
    IF i = 0 THEN 0
    ELSE IF x[i] < y[i] THEN -1
    ELSE IF x[i] > y[i] THEN 1
    ELSE BCmpFrom(x, y, i - 1)

\* -1, 0, 1 as x <, =, > y (both without leading zero digits)
BCmp(x, y) ==
    IF Len(x) < Len(y) THEN -1
    ELSE IF Len(x) > Len(y) THEN 1
    ELSE BCmpFrom(x, y, Len(x))

RECURSIVE BMulSmallC(_, _, _)
BMulSmallC(x, d, c) ==
    IF x = <<>> THEN (IF c = 0 THEN <<>> ELSE <<c>>)
    ELSE LET p == x[1] * d + c
         IN  <<p % Base>> \o BMulSmallC(Tail(x), d, p \div Base)

\* x * d for a digit d < Base
BMulSmall(x, d) == BNorm(BMulSmallC(x, d, 0))

RECURSIVE BMul(_, _)
BMul(x, y) ==
    IF y = <<>> \/ x = <<>> THEN <<>>
    ELSE BAdd(BMulSmall(x, y[1]),
              LET r == BMul(x, Tail(y)) IN IF r = <<>> THEN <<>> ELSE <<0>> \o r)

RECURSIVE BitLenDigit(_)
BitLenDigit(d) == IF d = 0 THEN 0 ELSE 1 + BitLenDigit(d \div 2)

BBitLen(x) == IF x = <<>> THEN 0 ELSE DigitBits * (Len(x) - 1) + BitLenDigit(x[Len(x)])

Zeros(k) == [i \in 1..k |-> 0]

\* x * 2^n
BShl(x, n) ==
    IF x = <<>> THEN <<>>
    ELSE Zeros(n \div DigitBits) \o BMulSmall(x, Pow2(n % DigitBits))

RECURSIVE BDivSmallFrom(_, _, _, _)
BDivSmallFrom(x, d, i, r) ==
    IF i = 0 THEN <<>>
    ELSE LET cur == r * Base + x[i]
         IN  BDivSmallFrom(x, d, i - 1, cur % d) \o <<cur \div d>>

\* floor(x / 2^n)
BShr(x, n) ==
    LET k == n \div DigitBits
        y == IF k >= Len(x) THEN <<>> ELSE SubSeq(x, k + 1, Len(x))
    IN  BNorm(BDivSmallFrom(y, Pow2(n % DigitBits), Len(y), 0))

\* x mod 2^n # 0
BLowBits(x, n) == BCmp(BShl(BShr(x, n), n), x) # 0

BOdd(x) == x # <<>> /\ x[1] % 2 = 1

(***************************************************************************)
(* binary64, non-negative and normal: [m |-> 53-bit natural, e |-> Int],   *)
(* zero is [m |-> <<>>, e |-> 0].                                          *)
(***************************************************************************)
FZero == [m |-> <<>>, e |-> 0]

\* n * 2^e (plus a non-zero tail below the last bit when sticky) rounded to
\* nearest, ties to even
FRound(n, e, sticky) ==
    LET len == BBitLen(n) IN
    IF len = 0 THEN FZero
    ELSE IF len <= MantBits THEN [m |-> BShl(n, MantBits - len), e |-> e - (MantBits - len)]
    ELSE LET drop  == len - MantBits
             q     == BShr(n, drop)
             guard == BOdd(BShr(n, drop - 1))
             rest  == sticky \/ BLowBits(n, drop - 1)
             up    == guard /\ (rest \/ BOdd(q))
             q2    == IF up THEN BAdd(q, <<1>>) ELSE q
         IN  IF BBitLen(q2) > MantBits
             THEN [m |-> BShr(q2, 1), e |-> e + drop + 1]
             ELSE [m |-> q2, e |-> e + drop]

FFromNat(n) == FRound(BFromNat(n), 0, FALSE)

\* k / 2, exact
FFromHalves(k) == FRound(BFromNat(k), -1, FALSE)

FIsZero(x) == x.m = <<>>

FMul(x, y) == FRound(BMul(x.m, y.m), x.e + y.e, FALSE)

FAdd(x, y) ==
    IF FIsZero(x) THEN y
    ELSE IF FIsZero(y) THEN x
    ELSE LET e == IF x.e < y.e THEN x.e ELSE y.e
         IN  FRound(BAdd(BShl(x.m, x.e - e), BShl(y.m, y.e - e)), e, FALSE)

\* largest q <= qhat with q * b <= r
RECURSIVE QFix(_, _, _)
QFix(r, b, qhat) ==
    IF BCmp(BMulSmall(b, qhat), r) > 0 THEN QFix(r, b, qhat - 1) ELSE qhat

\* estimate of floor(r / b) from the leading digits, for b <= r < b * Base and
\* the leading digit of b at least Base / 2: at most 2 too large
QEst(r, b) ==
    LET n == Len(b)
        top == (IF Len(r) > n THEN r[n + 1] ELSE 0) * Base + r[n]
        est == top \div b[n]
    IN  IF est >= Base THEN Base - 1 ELSE est

\* schoolbook long division of a by b, digits a[i], a[i-1], ..., a[1] still
\* to bring down: st = [q, r]
RECURSIVE LongDiv(_, _, _, _)
LongDiv(a, i, st, b) ==
    IF i = 0 THEN st
    ELSE LET r  == BNorm(<<a[i]>> \o st.r)
             qd == IF BCmp(r, b) < 0 THEN 0 ELSE QFix(r, b, QEst(r, b))
         IN  LongDiv(a, i - 1,
                     [q |-> <<qd>> \o st.q,
                      r |-> IF qd = 0 THEN r ELSE BSub(r, BMulSmall(b, qd))],
                     b)

QuotBits == 60
NormShift == 7

\* x / y, for y # 0 only (every division of the program is guarded):
\* floor(x.m * 2^60 / y.m) and whether a remainder is left
FDiv(x, y) ==
    IF FIsZero(x) \/ FIsZero(y) THEN FZero
    ELSE LET a == Zeros(QuotBits \div DigitBits) \o BShl(x.m, NormShift)
             d == LongDiv(a, Len(a), [q |-> <<>>, r |-> <<>>], BShl(y.m, NormShift))
         IN  FRound(BNorm(d.q), x.e - y.e - QuotBits, d.r # <<>>)

\* -1, 0, 1 as x <, =, > y
FCmp(x, y) ==
    IF FIsZero(x) THEN (IF FIsZero(y) THEN 0 ELSE -1)
    ELSE IF FIsZero(y) THEN 1
    ELSE IF x.e < y.e THEN -1
    ELSE IF x.e > y.e THEN 1
    ELSE BCmp(x.m, y.m)

FLe(x, y) == FCmp(x, y) <= 0
FLt(x, y) == FCmp(x, y) < 0

\* int(round(x)): Python rounds to nearest, ties to even
FRoundToInt(x) ==
    IF FIsZero(x) THEN 0
    ELSE IF x.e >= 0 THEN BToNat(BShl(x.m, x.e))
    ELSE LET drop  == 0 - x.e
             q     == BShr(x.m, drop)
             guard == BOdd(BShr(x.m, drop - 1))
             rest  == BLowBits(x.m, drop - 1)
         IN  BToNat(IF guard /\ (rest \/ BOdd(q)) THEN BAdd(q, <<1>>) ELSE q)

(***************************************************************************)
(* Optional values (None in the source) are sequences of length <= 1.      *)
(***************************************************************************)
None == <<>>
Some(v) == <<v>>

\* WEEKS_PER_MONTH = 4.33: the literal denotes the double nearest to 433/100
WEEKS_PER_MONTH == FDiv(FFromNat(433), FFromNat(100))

VARIABLES
    pc,          \* position inside transit_route_with_retry
    calls,       \* time modes passed to routes_compute_transit so far, in order
    data,        \* response to the departure query (None before it)
    data2,       \* response to the arrival query (None before it)
    ret,         \* value returned by transit_route_with_retry (None before)
    margs,       \* arguments of a weighted_merge call
    mres,        \* its outcome (None before the call)
    listings,    \* st.session_state.listings: the rows of the listing table
    last,        \* what the latest run of the run_btn handler did
    runs_left,   \* handler runs the specification still allows
    time_value,  \* sidebar: None, or yen per hour
    df,          \* per-row results of row_total_cost, in listing order
    df_sorted    \* row numbers of df in the displayed order

retryVars == <<pc, calls, data, data2, ret>>
mergeVars == <<margs, mres>>
commuteVars == <<last, runs_left>>
tableVars == <<time_value, df, df_sorted>>
vars == <<pc, calls, data, data2, ret, margs, mres, listings, last, runs_left,
          time_value, df, df_sorted>>

(***************************************************************************)
(* Responses of the Routes API as routes_compute_transit returns them      *)
(* (the debug fields it adds are never read by the logic).                 *)
(***************************************************************************)
Payload(routes, error, error_message) ==
    [routes |-> routes, error |-> error, error_message |-> error_message,
     status |-> None]

Route(seconds, fare) == [duration |-> seconds, transitFare |-> fare]
Fare(currency, units) == [currencyCode |-> currency, units |-> units, nanos |-> 0]

RouteOutcomes ==
    { Payload(<<Route(300, None)>>, None, None),
      Payload(<<Route(300, Some(Fare("JPY", 200)))>>, None, None),
      Payload(<<Route(180, Some(Fare("JPY", 320)))>>, None, None),
      Payload(<<Route(300, Some(Fare("USD", 2)))>>, None, None) }

\* an empty body: the provider found no route
NoRouteOutcome == Payload(<<>>, None, None)

\* error payloads: malformed request, authentication failure
HardErrorOutcomes ==
    { Payload(<<>>, Some([message |-> Some("API key not valid")]), None),
      Payload(<<>>, Some([message |-> Some("Invalid JSON payload")]), None),
      Payload(<<>>, Some([message |-> None]), None),
      Payload(<<>>, None, Some("REQUEST_DENIED")) }

Outcomes == RouteOutcomes \cup {NoRouteOutcome} \cup HardErrorOutcomes

\* an extraction that forgets the legacy error_message field
extract_error_message_dict_only(payload) ==
    IF payload.error # None /\ payload.error[1].message # None
    THEN payload.error[1].message[1]
    ELSE ""

extract_error_message(payload) ==
    IF payload.error # None /\ payload.error[1].message # None
    THEN payload.error[1].message[1]
    ELSE IF payload.error_message # None THEN payload.error_message[1]
    ELSE ""

\* data.get("routes")
HasRoutes(payload) == payload.routes # <<>>

\* data.setdefault("status", "OK"); return True, data, tag
RetSuccess(payload, tag) ==
    [ok |-> TRUE,
     data |-> IF payload.status = None THEN [payload EXCEPT !.status = Some("OK")]
              ELSE payload,
     tag |-> tag]

\* the failure exit of transit_route_with_retry
RetFailure(payload) ==
    LET err == extract_error_message(payload) IN
    [ok |-> FALSE,
     data |-> IF err # ""
              THEN [payload EXCEPT !.status = Some("ERROR"), !.error_message = Some(err)]
              ELSE [payload EXCEPT !.status = Some("NO_ROUTES")],
     tag |-> "routes_transit_arrival"]

\* The whole function, given what the provider answers to the departure
\* query and what it answers to the arrival query if that one is sent.
transit_route_with_retry(departure, arrival) ==
    IF HasRoutes(departure) THEN RetSuccess(departure, "routes_transit_departure")
    ELSE IF HasRoutes(arrival) THEN RetSuccess(arrival, "routes_transit_arrival")
    ELSE RetFailure(arrival)

(***************************************************************************)
(* transit_route_with_retry step by step, the provider as environment.     *)
(***************************************************************************)
QueryDeparture(o) ==
    /\ pc = "query_departure"
    /\ data' = Some(o)
    /\ calls' = Append(calls, "departure")
    /\ pc' = "check_departure"
    /\ UNCHANGED <<data2, ret>>

ReturnDeparture ==
    /\ pc = "check_departure"
    /\ HasRoutes(data[1])
    /\ ret' = Some(RetSuccess(data[1], "routes_transit_departure"))
    /\ pc' = "done"
    /\ UNCHANGED <<calls, data, data2>>

\* an arrival query that does not look at the departure response
QueryArrivalAlways(o) ==
    /\ pc = "check_departure"
    /\ data2' = Some(o)
    /\ calls' = Append(calls, "arrival")
    /\ pc' = "check_arrival"
    /\ UNCHANGED <<data, ret>>

QueryArrival(o) ==
    /\ pc = "check_departure"
    /\ ~HasRoutes(data[1])
    /\ data2' = Some(o)
    /\ calls' = Append(calls, "arrival")
    /\ pc' = "check_arrival"
    /\ UNCHANGED <<data, ret>>

ReturnArrival ==
    /\ pc = "check_arrival"
    /\ HasRoutes(data2[1])
    /\ ret' = Some(RetSuccess(data2[1], "routes_transit_arrival"))
    /\ pc' = "done"
    /\ UNCHANGED <<calls, data, data2>>

ReturnFailure ==
    /\ pc = "check_arrival"
    /\ ~HasRoutes(data2[1])
    /\ ret' = Some(RetFailure(data2[1]))
    /\ pc' = "done"
    /\ UNCHANGED <<calls, data, data2>>

(***************************************************************************)
(* parse_route and weighted_merge.                                         *)
(***************************************************************************)
\* (minutes, fare_jpy) of routes[0]; the summary is always ""
parse_route(payload) ==
    LET r0 == payload.routes[1]
        tf == r0.transitFare
    IN  [minutes |-> FRoundToInt(FDiv(FFromNat(r0.duration), FFromNat(60))),
         fare |-> IF tf # None /\ tf[1].currencyCode = "JPY"
                  THEN Some(FAdd(FFromNat(tf[1].units),
                                 FDiv(FFromNat(tf[1].nanos), FFromNat(1000000000))))
                  ELSE None]

\* lines 232-250: the four running sums after both destinations
MergeSums(a_ok, a_minutes, a_fare, a_w, b_ok, b_minutes, b_fare, b_w) ==
    LET a_in == a_ok /\ ~FIsZero(a_w) /\ a_minutes # None
        b_in == b_ok /\ ~FIsZero(b_w) /\ b_minutes # None
        w1 == IF a_in THEN FAdd(FZero, a_w) ELSE FZero
        m1 == IF a_in THEN FAdd(FZero, FMul(FFromNat(a_minutes[1]), a_w)) ELSE FZero
        fw1 == IF a_in /\ a_fare # None THEN FAdd(FZero, a_w) ELSE FZero
        f1 == IF a_in /\ a_fare # None THEN FAdd(FZero, FMul(a_fare[1], a_w)) ELSE FZero
    IN  [w_total |-> IF b_in THEN FAdd(w1, b_w) ELSE w1,
         minutes_total |-> IF b_in THEN FAdd(m1, FMul(FFromNat(b_minutes[1]), b_w)) ELSE m1,
         fare_w_total |-> IF b_in /\ b_fare # None THEN FAdd(fw1, b_w) ELSE fw1,
         fare_total |-> IF b_in /\ b_fare # None THEN FAdd(f1, FMul(b_fare[1], b_w)) ELSE f1]

\* a merge that returns zero where the source raises
MergeResultSilent(sums) ==
    [raised |-> FALSE,
     avg_minutes |-> FDiv(sums.minutes_total, sums.w_total),
     avg_fare |-> IF ~FIsZero(sums.fare_w_total)
                  THEN Some(FDiv(sums.fare_total, sums.fare_w_total)) ELSE None]

\* a merge that divides the fare sum by the weight of all contributing results
MergeResultAllWeights(sums) ==
    IF FIsZero(sums.w_total)
    THEN [raised |-> TRUE, avg_minutes |-> FZero, avg_fare |-> None]
    ELSE [raised |-> FALSE,
          avg_minutes |-> FDiv(sums.minutes_total, sums.w_total),
          avg_fare |-> IF ~FIsZero(sums.fare_w_total)
                       THEN Some(FDiv(sums.fare_total, sums.w_total)) ELSE None]

\* lines 252-257: raise on no weight, else the two averages
MergeResult(sums) ==
    IF FIsZero(sums.w_total)
    THEN [raised |-> TRUE, avg_minutes |-> FZero, avg_fare |-> None]
    ELSE [raised |-> FALSE,
          avg_minutes |-> FDiv(sums.minutes_total, sums.w_total),
          avg_fare |-> IF ~FIsZero(sums.fare_w_total)
                       THEN Some(FDiv(sums.fare_total, sums.fare_w_total)) ELSE None]

weighted_merge(a_ok, a_minutes, a_fare, a_w, b_ok, b_minutes, b_fare, b_w) ==
    MergeResult(MergeSums(a_ok, a_minutes, a_fare, a_w, b_ok, b_minutes, b_fare, b_w))

\* Largest weekly frequency the model enters, in half visits (step=0.5)
MaxFreqHalves == 2
FreqHalves == 0..MaxFreqHalves

\* monthly_oneway_X = freqX * WEEKS_PER_MONTH
MonthlyOneway(h) == FMul(FFromHalves(h), WEEKS_PER_MONTH)

\* What the handler holds for one destination before the merge: ok,
\* minutes and fare (both None unless ok)
Resolved(r) ==
    IF r.ok THEN LET p == parse_route(r.data)
                 IN  [ok |-> TRUE, minutes |-> Some(p.minutes), fare |-> p.fare]
    ELSE [ok |-> FALSE, minutes |-> None, fare |-> None]

RouteResults == {transit_route_with_retry(o1, o2) : o1 \in Outcomes, o2 \in Outcomes}

DestResults == {Resolved(r) : r \in RouteResults}

MergeOf(a, ha, b, hb) ==
    weighted_merge(a.ok, a.minutes, a.fare, MonthlyOneway(ha),
                   b.ok, b.minutes, b.fare, MonthlyOneway(hb))

MergeInputs == [a : DestResults, ha : FreqHalves, b : DestResults, hb : FreqHalves]

\* weighted_merge tabulated over the calls the handler can make (a set of
\* argument/result pairs)
MergeGraph == {<<k, MergeOf(k.a, k.ha, k.b, k.hb)>> : k \in MergeInputs}
MergeTable(k) == (CHOOSE p \in MergeGraph : p[1] = k)[2]

Merge ==
    /\ mres = None
    /\ mres' = Some(MergeOf(margs.a, margs.ha, margs.b, margs.hb))
    /\ UNCHANGED margs

(***************************************************************************)
(* The listing table and the run_btn handler.  Weekly frequencies are kept *)
(* in half visits; amounts are yen.                                        *)
(***************************************************************************)
Listing(name, rent, mgmt, utilities, phone, food, other, minutes, fare, fa, fb) ==
    [name |-> name, rent |-> rent, mgmt |-> mgmt, utilities |-> utilities,
     phone |-> phone, food |-> food, other |-> other,
     minutes |-> minutes, fare |-> FFromNat(fare), freqA |-> fa, freqB |-> fb]

\* the row the table is created with
DefaultListing == Listing("Asakusa 1K", 110000, 8000, 12000, 3000, 40000, 5000, 0, 0, 2, 1)

\* rows a user types into the editor
TwinListing == Listing("Ueno 1K", 110000, 8000, 12000, 3000, 40000, 5000, 0, 0, 2, 1)
ExampleListing == Listing("Example", 90000, 8000, 12000, 3000, 45000, 5000, 30, 200, 10, 0)
CheapListing == Listing("Share house", 60000, 0, 12000, 3000, 40000, 5000, 45, 300, 2, 1)

DearListing == Listing("Shinjuku 1LDK", 150000, 10000, 12000, 3000, 40000, 5000, 12, 180, 2, 1)

RowChoices == {DefaultListing, TwinListing, ExampleListing, CheapListing, DearListing}

MaxRows == 2
MaxRuns == 1

\* tables of the handler's specification: the default row, then twins
StartTable(n) == [i \in 1..n |-> IF i = 1 THEN DefaultListing ELSE TwinListing]

\* a write-back that takes the row number for the index
WriteBackOffByOne(table, target_row, merged, freqA, freqB) ==
    LET idx == target_row IN
    IF 0 <= idx /\ idx < Len(table)
    THEN [table EXCEPT ![idx + 1] =
            [@ EXCEPT !.minutes = FRoundToInt(merged.avg_minutes),
                      !.fare = IF merged.avg_fare # None THEN merged.avg_fare[1] ELSE @,
                      !.freqA = freqA,
                      !.freqB = freqB]]
    ELSE table

\* lines 425-435: idx = int(target_row) - 1, the range check and the writes
WriteBack(table, target_row, merged, freqA, freqB) ==
    LET idx == target_row - 1 IN
    IF 0 <= idx /\ idx < Len(table)
    THEN [table EXCEPT ![idx + 1] =
            [@ EXCEPT !.minutes = FRoundToInt(merged.avg_minutes),
                      !.fare = IF merged.avg_fare # None THEN merged.avg_fare[1] ELSE @,
                      !.freqA = freqA,
                      !.freqB = freqB]]
    ELSE table

NoRun == [outcome |-> "none", target_row |-> 0, a |-> None, b |-> None,
          freqA |-> 0, freqB |-> 0, avg_fare |-> None]

Stopped(why) == [NoRun EXCEPT !.outcome = why]

\* origin.strip() is empty: st.error, st.stop()
RunEmptyOrigin ==
    /\ runs_left > 0
    /\ runs_left' = runs_left - 1
    /\ last' = Some(Stopped("empty_origin"))
    /\ UNCHANGED listings

\* one of the three geocode calls raises; the except clause reports it
RunGeocodeError ==
    /\ runs_left > 0
    /\ runs_left' = runs_left - 1
    /\ last' = Some(Stopped("geocode_error"))
    /\ UNCHANGED listings

\* the handler from line 378 on, for what the two route resolutions gave
RunCompute(a, b, freqA, freqB, target_row) ==
    LET merged == MergeTable([a |-> a, ha |-> freqA, b |-> b, hb |-> freqB])
        run == [outcome |-> "written", target_row |-> target_row,
                a |-> Some(a), b |-> Some(b), freqA |-> freqA, freqB |-> freqB,
                avg_fare |-> merged.avg_fare]
        idx == target_row - 1
    IN  /\ runs_left > 0
        /\ runs_left' = runs_left - 1
        /\ IF ~(a.ok \/ b.ok)
           THEN /\ last' = Some(Stopped("no_route"))
                /\ UNCHANGED listings
           ELSE IF merged.raised
           THEN /\ last' = Some(Stopped("merge_error"))
                /\ UNCHANGED listings
           ELSE /\ listings' = WriteBack(listings, target_row, merged, freqA, freqB)
                /\ last' = Some(IF 0 <= idx /\ idx < Len(listings) THEN run
                                ELSE [run EXCEPT !.outcome = "row_out_of_range"])

\* a cash total that leaves the commute out
CashTotalFixedOnly(fixed, monthly_commute_cost) == fixed

\* line 478
CashTotal(fixed, monthly_commute_cost) == FAdd(fixed, monthly_commute_cost)

row_total_cost(row, time_value_yph) ==
    LET fixed == FAdd(FAdd(FAdd(FAdd(FAdd(FFromNat(row.rent), FFromNat(row.mgmt)),
                                     FFromNat(row.utilities)),
                                FFromNat(row.phone)),
                           FFromNat(row.food)),
                      FFromNat(row.other))
        a_w == FMul(FFromHalves(row.freqA), WEEKS_PER_MONTH)
        b_w == FMul(FFromHalves(row.freqB), WEEKS_PER_MONTH)
        monthly_oneway_total == FAdd(a_w, b_w)
        one_way_minutes == FFromNat(row.minutes)
        one_way_fare == row.fare
        monthly_commute_minutes == FMul(FMul(one_way_minutes, monthly_oneway_total), FFromNat(2))
        monthly_commute_cost == FMul(FMul(one_way_fare, monthly_oneway_total), FFromNat(2))
        cash_total == CashTotal(fixed, monthly_commute_cost)
        monthly_commute_hours == FDiv(monthly_commute_minutes, FFromNat(60))
        time_cost == FMul(monthly_commute_hours, FFromNat(time_value_yph[1]))
    IN  [fixed |-> fixed,
         monthly_commute_cost |-> monthly_commute_cost,
         cash_total |-> cash_total,
         monthly_commute_minutes |-> monthly_commute_minutes,
         time_cost |-> IF time_value_yph # None THEN Some(time_cost) ELSE None,
         total_with_time |-> IF time_value_yph # None
                             THEN Some(FAdd(cash_total, time_cost)) ELSE None]

(***************************************************************************)
(* The comparison: every run of the script recomputes it from the table.   *)
(***************************************************************************)
\* st.number_input(..., value=1500) behind a toggle that starts on
DefaultTimeValue == Some(1500)
TimeValues == {None, Some(0), Some(1500)}

\* row_total_cost tabulated over the rows the editor can hold
CostGraph == {<<r, tv, row_total_cost(r, tv)>> : r \in RowChoices, tv \in TimeValues}
CostTable(r, tv) == (CHOOSE p \in CostGraph : p[1] = r /\ p[2] = tv)[3]

\* rows (lines 490-503): one result per listing, in listing order
Comparison(table, tv) == [i \in 1..Len(table) |-> CostTable(table[i], tv)]

\* sort_col (line 505): cash+time when a time value is set, else cash
SortKeys(rows, tv) ==
    [i \in 1..Len(rows) |-> IF tv # None THEN rows[i].total_with_time[1]
                            ELSE rows[i].cash_total]

Orderings(n) == {p \in [1..n -> 1..n] : \A i, j \in 1..n : p[i] = p[j] => i = j}

\* df.sort_values(by=sort_col, ascending=True): the default kind is
\* "quicksort", which promises ascending keys and no order among equal keys
SortOutcomes(keys) ==
    {p \in Orderings(Len(keys)) :
        \A i \in 1..(Len(keys) - 1) : FLe(keys[p[i]], keys[p[i + 1]])}

\* the rest of the script (lines 490-506), which runs in the same step as
\* every change of a widget
Rerun ==
    /\ df' = Comparison(listings', time_value')
    /\ df_sorted' \in SortOutcomes(SortKeys(df', time_value'))

AddRow(r) ==
    /\ Len(listings) < MaxRows
    /\ listings' = Append(listings, r)
    /\ UNCHANGED time_value

EditRow(i, r) ==
    /\ i <= Len(listings)
    /\ listings[i] # r
    /\ listings' = [listings EXCEPT ![i] = r]
    /\ UNCHANGED time_value

DeleteRow(i) ==
    /\ i <= Len(listings)
    /\ listings' = [j \in 1..(Len(listings) - 1) |->
                        IF j < i THEN listings[j] ELSE listings[j + 1]]
    /\ UNCHANGED time_value

SetTimeValue(tv) ==
    /\ tv # time_value
    /\ time_value' = tv
    /\ UNCHANGED listings

(***************************************************************************)
(* Specifications.  Each one moves its own variables; the others rest.     *)
(***************************************************************************)
RetryIdle == pc = "idle" /\ calls = <<>> /\ data = None /\ data2 = None /\ ret = None
MergeIdle == margs = None /\ mres = None
CommuteIdle == last = None /\ runs_left = 0
TableIdle == time_value = None /\ df = <<>> /\ df_sorted = <<>>

InitRetry ==
    /\ pc = "query_departure" /\ calls = <<>> /\ data = None /\ data2 = None /\ ret = None
    /\ MergeIdle /\ CommuteIdle /\ TableIdle /\ listings = <<>>

NextRetry ==
    /\ \/ \E o \in Outcomes : QueryDeparture(o)
       \/ ReturnDeparture
       \/ \E o \in Outcomes : QueryArrival(o)
       \/ ReturnArrival
       \/ ReturnFailure
    /\ UNCHANGED <<mergeVars, commuteVars, tableVars, listings>>

SpecRetry == InitRetry /\ [][NextRetry]_vars

InitMerge ==
    /\ margs \in [a : DestResults, ha : FreqHalves, b : DestResults, hb : FreqHalves]
    /\ mres = None
    /\ RetryIdle /\ CommuteIdle /\ TableIdle /\ listings = <<>>

NextMerge ==
    /\ Merge
    /\ UNCHANGED <<retryVars, commuteVars, tableVars, listings>>

SpecMerge == InitMerge /\ [][NextMerge]_vars

\* weekly frequencies entered at lines 325 and 330 in the handler runs, in
\* half visits: 0, 0.5 and 1 visits a week
RunFreqHalves == {0, 1, 2}

Init ==
    /\ listings \in {StartTable(n) : n \in 1..MaxRows}
    /\ last = None /\ runs_left = MaxRuns
    /\ RetryIdle /\ MergeIdle /\ TableIdle

Next ==
    /\ \/ RunEmptyOrigin
       \/ RunGeocodeError
       \/ \E a \in DestResults, b \in DestResults, freqA \in RunFreqHalves,
             freqB \in RunFreqHalves, target_row \in 1..(MaxRows + 1) :
                RunCompute(a, b, freqA, freqB, target_row)
    /\ UNCHANGED <<retryVars, mergeVars, tableVars>>

\* the handler, at most MaxRuns times
Spec == Init /\ [][Next]_vars

InitRerun ==
    /\ listings = StartTable(1)
    /\ last = None /\ runs_left = MaxRuns + 1
    /\ RetryIdle /\ MergeIdle /\ TableIdle

\* the handler on the table as first created, once more than under Spec
SpecRerun == InitRerun /\ [][Next]_vars

InitTable ==
    /\ listings = <<DefaultListing>>
    /\ time_value = DefaultTimeValue
    /\ df = Comparison(listings, time_value)
    /\ df_sorted \in SortOutcomes(SortKeys(df, time_value))
    /\ RetryIdle /\ MergeIdle /\ CommuteIdle

NextTable ==
    /\ \/ \E r \in RowChoices : AddRow(r)
       \/ \E i \in 1..MaxRows, r \in RowChoices : EditRow(i, r)
       \/ \E i \in 1..MaxRows : DeleteRow(i)
       \/ \E tv \in TimeValues : SetTimeValue(tv)
    /\ Rerun
    /\ UNCHANGED <<retryVars, mergeVars, commuteVars>>

SpecTable == InitTable /\ [][NextTable]_vars

(***************************************************************************)
(* Claims about transit_route_with_retry, under SpecRetry.                 *)
(***************************************************************************)
\* the provider answered with an error payload and no route
IsHardError(payload) ==
    payload.routes = <<>> /\ (payload.error # None \/ payload.error_message # None)

\* the text an error payload carries, "" if none
ErrorText(payload) ==
    IF payload.error # None /\ payload.error[1].message # None
    THEN payload.error[1].message[1]
    ELSE IF payload.error_message # None THEN payload.error_message[1]
    ELSE ""

\* C1: the tiers are queried in precedence order, the arrival tier only after
\* the departure response was seen to hold no route and never after a
\* departure response with a route; the result is a success tagged with the
\* first tier whose response held a route, and a failure if none did.
C1_FirstRouteWins ==
    /\ calls \in {<<>>, <<"departure">>, <<"departure", "arrival">>}
    /\ Len(calls) = 2 => data # None /\ data[1].routes = <<>>
    /\ data # None /\ data[1].routes # <<>> => calls = <<"departure">> /\ data2 = None
    /\ ret # None =>
         /\ data # None
         /\ IF data[1].routes # <<>>
            THEN /\ ret[1].ok
                 /\ ret[1].tag = "routes_transit_departure"
                 /\ ret[1].data.routes = data[1].routes
            ELSE /\ data2 # None
                 /\ IF data2[1].routes # <<>>
                    THEN /\ ret[1].ok
                         /\ ret[1].tag = "routes_transit_arrival"
                         /\ ret[1].data.routes = data2[1].routes
                    ELSE ~ret[1].ok

\* C1 witness: the departure tier found no route and the arrival tier did
C1_Witness ==
    /\ ret # None /\ ret[1].ok /\ ret[1].tag = "routes_transit_arrival"
    /\ data # None /\ data[1] = NoRouteOutcome
    /\ calls = <<"departure", "arrival">>

Contributes(d, h) == d.ok /\ h > 0

\* C3: when no destination counts (each failed or has weight zero) the merge
\* raises and returns no number.
C3_ZeroWeightRaises ==
    mres # None /\ ~Contributes(margs.a, margs.ha) /\ ~Contributes(margs.b, margs.hb)
        => mres[1].raised

\* C3 witness: the only destination that resolved has frequency 0
C3_Witness ==
    /\ mres # None /\ mres[1].raised
    /\ margs.a.ok /\ margs.ha = 0 /\ ~margs.b.ok /\ margs.hb > 0

\* durations of the destinations that count
ContributingMinutes ==
    {margs.a.minutes[1] : x \in {1} \cap (IF Contributes(margs.a, margs.ha) THEN {1} ELSE {})}
    \cup {margs.b.minutes[1] : x \in {1} \cap (IF Contributes(margs.b, margs.hb) THEN {1} ELSE {})}

\* C4 as stated: with a positive total weight the weighted duration lies
\* between the smallest and the largest contributing duration, and a result
\* that does not count has no influence on it.
C4_AverageWithinRange ==
    mres # None /\ ~mres[1].raised =>
        /\ \E lo \in ContributingMinutes : FLe(FFromNat(lo), mres[1].avg_minutes)
        /\ \E hi \in ContributingMinutes : FLe(mres[1].avg_minutes, FFromNat(hi))
        /\ ~Contributes(margs.a, margs.ha) =>
             \A d \in DestResults, h \in FreqHalves :
                ~Contributes(d, h) =>
                    MergeOf(d, h, margs.b, margs.hb).avg_minutes = mres[1].avg_minutes
        /\ ~Contributes(margs.b, margs.hb) =>
             \A d \in DestResults, h \in FreqHalves :
                ~Contributes(d, h) =>
                    MergeOf(margs.a, margs.ha, d, h).avg_minutes = mres[1].avg_minutes

HasFare(d, h) == Contributes(d, h) /\ d.fare # None

\* C9: the weighted fare is absent exactly when no counting destination has
\* a fare; otherwise it is the fare-weight sum over the destinations that count
\* and have a fare, divided by the weight sum of those same destinations.
C9_FareOverFareSubset ==
    mres # None /\ ~mres[1].raised =>
        LET wa == MonthlyOneway(margs.ha)
            wb == MonthlyOneway(margs.hb)
            fa == HasFare(margs.a, margs.ha)
            fb == HasFare(margs.b, margs.hb)
        IN  /\ mres[1].avg_fare = None <=> ~fa /\ ~fb
            /\ fa /\ fb => mres[1].avg_fare[1] =
                    FDiv(FAdd(FMul(margs.a.fare[1], wa), FMul(margs.b.fare[1], wb)),
                         FAdd(wa, wb))
            /\ fa /\ ~fb => mres[1].avg_fare[1] = FDiv(FMul(margs.a.fare[1], wa), wa)
            /\ fb /\ ~fa => mres[1].avg_fare[1] = FDiv(FMul(margs.b.fare[1], wb), wb)

\* C9 witness: both destinations count for the duration, one of them has
\* no fare, and the fare of the other is returned
C9_Witness ==
    /\ mres # None /\ ~mres[1].raised
    /\ HasFare(margs.a, margs.ha)
    /\ Contributes(margs.b, margs.hb) /\ margs.b.fare = None
    /\ mres[1].avg_fare # None

(***************************************************************************)
(* Claims about the run_btn handler, under Spec and SpecRerun.             *)
(***************************************************************************)
\* the row the latest run was aimed at
TargetRow == listings[last[1].target_row]

\* monthly commute cost of a row as the comparison computes it
CommuteCostOf(row) == row_total_cost(row, None).monthly_commute_cost

\* one destination's own monthly cost: its fare times its round trips, and
\* nothing when it did not resolve or has no fare
OwnMonthlyCost(d, h) ==
    IF d.ok /\ d.fare # None
    THEN FMul(d.fare[1], FMul(MonthlyOneway(h), FFromNat(2)))
    ELSE FZero

\* within half a yen of each other (the table shows whole yen)
Close(u, v) == FLe(u, FAdd(v, FFromHalves(1))) /\ FLe(v, FAdd(u, FFromHalves(1)))

\* C5 as stated: after a computation wrote its row, the row's monthly commute
\* cost is the sum of the two destinations' own monthly costs.
C5_CostIsSumOfDestinations ==
    last # None /\ last[1].outcome = "written" =>
        Close(CommuteCostOf(TargetRow),
              FAdd(OwnMonthlyCost(last[1].a[1], last[1].freqA),
                   OwnMonthlyCost(last[1].b[1], last[1].freqB)))

\* C7 as stated: when the latest computation that wrote the row obtained no
\* fare from any destination, the row's monthly commute cost is 0.
C7_NoFareMeansZeroCost ==
    last # None /\ last[1].outcome = "written" /\ last[1].avg_fare = None =>
        FIsZero(CommuteCostOf(TargetRow))

FixedColumns == {"name", "rent", "mgmt", "utilities", "phone", "food", "other"}

C6_StableAscendingOrder ==
    LET keys == SortKeys(df, time_value)
        n == Len(listings)
    IN  /\ Len(df_sorted) = n
        /\ \A k \in 1..n : Cardinality({i \in 1..n : df_sorted[i] = k}) = 1
        /\ \A i, j \in 1..n :
              i < j => /\ ~FLt(keys[df_sorted[j]], keys[df_sorted[i]])
                       /\ FCmp(keys[df_sorted[i]], keys[df_sorted[j]]) = 0
                            => df_sorted[i] < df_sorted[j]

OneTimeTotals == {0, 240000}
TenancyMonths == {0, 24}

====
